---- MODULE Spec2Model ----
(***************************************************************************)
(* A model of the-lz4-library's frame/block container (src/src/lz4.c):     *)
(* the 16 frame descriptors and their recognition, the compress and        *)
(* decompress sessions, the block codec and the end-of-stream trailer.     *)
(*                                                                         *)
(* Bytes are numbers 0..255 and buffers are sequences of bytes.  A uint32  *)
(* that may have bit 31 set (a length field) is kept as its four           *)
(* little-endian bytes, since 2^31 is no TLC integer.  The block           *)
(* compressor and the hash (impl/lz4.c, impl/lz4hc.c, impl/xxhash.c) are   *)
(* not part of the sources at hand and are modelled from their contracts.  *)
(***************************************************************************)
EXTENDS Integers, Sequences, FiniteSets, TLC

VARIABLES
    cs,        \* the compress session (lz4_t with ctx), or NULL
    ds,        \* the decompress session (lz4_t without ctx), or NULL
    raw,       \* the caller's raw block, as last given to lz4_compress_block
    wire,      \* the caller's block buffer: what lz4_compress_block wrote
    ecall,     \* the last lz4_compress_block call: its arguments and result
    flipped,   \* whether a bit of the block's payload was flipped in transit
    dst,       \* what lz4_decompress wrote, from dest[0] on, for this block
    dcall,     \* the last lz4_decompress call: its arguments and result
    trailer,   \* what compress-mode lz4_finish wrote
    fcall,     \* the last lz4_finish calls: results and what was compared
    fed,       \* reference hash (from the reset state) of the raw bytes fed
    nblocks,   \* number of lz4_compress_block calls so far
    cfin,      \* number of compress-mode lz4_finish calls so far (capped)
    dfin,      \* number of decompress-mode lz4_finish calls so far (capped)
    late,      \* whether an operation was accepted on a finished session
               \* (the callers stop at the first one)
               \* (the callers stop at the first one)
    hbuf,      \* a caller's 7-byte descriptor buffer
    hmut,      \* number of bytes of hbuf overwritten since it was emitted
    hres       \* the last lz4_check_header call: arguments, result, *r

vars == <<cs, ds, raw, wire, ecall, flipped, dst, dcall, trailer, fcall,
          fed, nblocks, cfin, dfin, late, hbuf, hmut, hres>>

streamVars == <<cs, ds, raw, wire, ecall, flipped, dst, dcall, trailer,
                fcall, fed, nblocks, cfin, dfin, late>>

headerVars == <<hbuf, hmut, hres>>

\* no session, no struct
NULL == [null |-> TRUE]

-----------------------------------------------------------------------------
(* Bounds of the model.                                                    *)

\* longest raw block the caller feeds
MaxLen == 3
\* most blocks fed to one compress session
MaxBlocks == 2
\* most bytes of a descriptor buffer the caller overwrites
MaxMut == 1

\* the byte values raw data is made of
Alphabet == {97, 98}

-----------------------------------------------------------------------------
(* Little-endian words.                                                    *)

RECURSIVE Pow2(_)
Pow2(k) == IF k = 0 THEN 1 ELSE 2 * Pow2(k - 1)

\* byte b with bit k inverted
FlipBitOf(b, k) == IF (b \div Pow2(k)) % 2 = 1 THEN b - Pow2(k) ELSE b + Pow2(k)

\* the four bytes that *(uint32_t *)dest = v stores, for 0 <= v < 2^31
write_little_endian_32(v) ==
    << v % 256, (v \div 256) % 256, (v \div 65536) % 256, v \div 16777216 >>

\* *(uint32_t *)(buf + off), as the four bytes stored there
read_little_endian_32(buf, off) == SubSeq(buf, off + 1, off + 4)

\* v | 0x80000000U on the stored bytes
OrHighBit(w) == [w EXCEPT ![4] = IF @ < 128 THEN @ + 128 ELSE @]

HighBit(w) == w[4] >= 128

\* the low 31 bits of a stored word, as a number
Low31(w) == w[1] + 256 * w[2] + 65536 * w[3] + 16777216 * (w[4] % 128)

Take(s, n) == SubSeq(s, 1, n)
Drop(s, n) == SubSeq(s, n + 1, Len(s))

-----------------------------------------------------------------------------
(* The descriptor table.                                                   *)

s64kb == 0
s256kb == 1
s1mb == 2
s4mb == 3
Sizes == {s64kb, s256kb, s1mb, s4mb}

n_64kb == <<4, 34, 77, 24, 96, 64, 130>>
c_64kb == <<4, 34, 77, 24, 100, 64, 167>>
b_64kb == <<4, 34, 77, 24, 112, 64, 173>>
cb_64kb == <<4, 34, 77, 24, 116, 64, 189>>

n_256kb == <<4, 34, 77, 24, 96, 80, 251>>
c_256kb == <<4, 34, 77, 24, 100, 80, 8>>
b_256kb == <<4, 34, 77, 24, 112, 80, 132>>
cb_256kb == <<4, 34, 77, 24, 116, 80, 255>>

n_1mb == <<4, 34, 77, 24, 96, 96, 81>>
c_1mb == <<4, 34, 77, 24, 100, 96, 133>>
b_1mb == <<4, 34, 77, 24, 112, 96, 51>>
cb_1mb == <<4, 34, 77, 24, 116, 96, 217>>

n_4mb == <<4, 34, 77, 24, 96, 112, 115>>
c_4mb == <<4, 34, 77, 24, 100, 112, 185>>
b_4mb == <<4, 34, 77, 24, 112, 112, 114>>
cb_4mb == <<4, 34, 77, 24, 116, 112, 142>>

Descriptors ==
    { n_64kb, c_64kb, b_64kb, cb_64kb, n_256kb, c_256kb, b_256kb, cb_256kb,
      n_1mb, c_1mb, b_1mb, cb_1mb, n_4mb, c_4mb, b_4mb, cb_4mb }

\* LZ4_compressBound of the block compressor (its documented formula)
LZ4_compressBound(n) == n + (n \div 255) + 16

\* the smallest high-effort level of the block compressor
LZ4HC_CLEVEL_MIN == 3

-----------------------------------------------------------------------------
(* The hash primitive (XXH32), modelled from its contract: a streaming     *)
(* state that reset seeds, update folds the bytes into, in order, and      *)
(* digest reads without changing.  The one-shot XXH32 is the digest of the *)
(* bytes folded into a freshly reset state.                                *)

HashMod == 13
HashMul == 31

XXH32_reset(seed) == seed % HashMod

RECURSIVE XXH32_update(_, _)
XXH32_update(st, bytes) ==
    IF bytes = <<>> THEN st
    ELSE XXH32_update((st * HashMul + Head(bytes) + 1) % HashMod, Tail(bytes))

XXH32_digest(st) == (st * 3 + 5) % HashMod

XXH32(bytes, seed) == XXH32_digest(XXH32_update(XXH32_reset(seed), bytes))

\* a state that was never reset holds whatever the allocation held: its
\* value is chosen when it is first read
UNINIT == -1
Garbage == {XXH32_reset(0), 7}
\* what l->xxh may turn out to hold when the session reads it
Held(l) == IF l.content_checksum /\ l.xxh = UNINIT THEN Garbage ELSE {l.xxh}

-----------------------------------------------------------------------------
(* The block compressor, modelled from its contract: a run-length code     *)
(* <<count, byte>>*, every count at least 1.  The compressor never writes  *)
(* past the capacity and returns 0 when the output does not fit; the       *)
(* decompressor never writes past the capacity and fails on malformed      *)
(* (a count of 0), truncated (a count without its byte) or overflowing     *)
(* input.                                                                  *)

RECURSIVE RunOf(_, _)
\* length of the run of s[1] at the head of s, at most cap
RunOf(s, cap) ==
    IF s = <<>> THEN 0
    ELSE IF Len(s) = 1 \/ cap <= 1 THEN 1
    ELSE IF s[2] = s[1] THEN 1 + RunOf(Tail(s), cap - 1) ELSE 1

RECURSIVE Encode(_, _)
\* maxRun = 1 codes every byte by itself (the accelerated search finds no run)
Encode(s, maxRun) ==
    IF s = <<>> THEN <<>>
    ELSE LET k == RunOf(s, maxRun)
         IN  <<k, s[1]>> \o Encode(Drop(s, k), maxRun)

Fit(out, cap) ==
    IF Len(out) > cap THEN [n |-> 0, out |-> <<>>] ELSE [n |-> Len(out), out |-> out]

LZ4_compress_fast_extState_fastReset(src, dest_len, acceleration) ==
    Fit(Encode(src, IF acceleration > 1 THEN 1 ELSE 255), dest_len)

LZ4_compress_HC_extStateHC_fastReset(src, dest_len, level) ==
    Fit(Encode(src, 255), dest_len)

RECURSIVE Decode(_, _, _)
\* [ok, out]: out is what was written to the destination, also on failure
Decode(src, out, cap) ==
    IF src = <<>> THEN [ok |-> TRUE, out |-> out]
    ELSE IF src[1] = 0 THEN [ok |-> FALSE, out |-> out]
    ELSE IF Len(src) < 2 THEN [ok |-> FALSE, out |-> out]
    ELSE IF Len(out) + src[1] > cap THEN [ok |-> FALSE, out |-> out]
    ELSE Decode(Drop(src, 2), out \o [i \in 1..src[1] |-> src[2]], cap)

LZ4_decompress_safe(src, dest_len) == Decode(src, <<>>, dest_len)

\* the negative values the decompressor reports a failure with: the negated
\* offset of the offending input byte, minus one
LZ4_ERRORS == {-1, -2, -500}

-----------------------------------------------------------------------------
(* Descriptor recognition and the sessions.                                *)

\* a mutation of Pair: the last byte is not looked at
Pair_flagsOnly(h, d) == h[5] = d[5]

\* h[4] == d[4] && h[6] == d[6]
Pair(h, d) == h[5] = d[5] /\ h[7] = d[7]

\* the four descriptors of one size class, in the order the code tries them
ClassOf(h) ==
    IF h[6] = 64 THEN <<s64kb, 64 * 1024, n_64kb, b_64kb, c_64kb, cb_64kb>>
    ELSE IF h[6] = 80 THEN <<s256kb, 256 * 1024, n_256kb, b_256kb, c_256kb, cb_256kb>>
    ELSE IF h[6] = 96 THEN <<s1mb, 1024 * 1024, n_1mb, b_1mb, c_1mb, cb_1mb>>
    ELSE IF h[6] = 112 THEN <<s4mb, 4 * 1024 * 1024, n_4mb, b_4mb, c_4mb, cb_4mb>>
    ELSE <<>>

\* lz4_check_header(r, header, header_size): [ok, r]; r is the caller's
\* struct (NULL if none) as the call leaves it.  The local `size` is set but
\* never stored: r.size keeps what it held.
lz4_check_header(r, h, header_size) ==
    LET no == [ok |-> FALSE, r |-> r]
        c == ClassOf(h)
        yes(hp, bc, cc) ==
            [ok |-> TRUE,
             r |-> [r EXCEPT !.compressed_size = LZ4_compressBound(c[2]),
                             !.block_size = c[2],
                             !.block_checksum = bc,
                             !.content_checksum = cc,
                             !.header = hp]]
    IN  IF header_size # 7 \/ r = NULL THEN no
        ELSE IF h[1] # n_64kb[1] \/ h[2] # n_64kb[2] \/ h[3] # n_64kb[3]
                \/ h[4] # n_64kb[4] THEN no
        ELSE IF c = <<>> THEN no
        ELSE IF Pair(h, c[3]) THEN yes(c[3], FALSE, FALSE)
        ELSE IF Pair(h, c[4]) THEN yes(c[4], TRUE, FALSE)
        ELSE IF Pair(h, c[5]) THEN yes(c[5], FALSE, TRUE)
        ELSE IF Pair(h, c[6]) THEN yes(c[6], TRUE, TRUE)
        ELSE no

\* an lz4_header_t on the stack, before anything is stored in it
UninitHeader(g) ==
    [block_size |-> 0, compressed_size |-> 0, size |-> g,
     block_checksum |-> FALSE, content_checksum |-> FALSE, header |-> <<>>]

\* _lz4_init_decompress(header, header_size); g is what the stack held
\* where h.size lives
lz4_init_decompress(header, header_size, g) ==
    LET chk == lz4_check_header(UninitHeader(g), header, header_size)
        h == chk.r
    IN  IF ~chk.ok THEN NULL
        ELSE [ctx |-> FALSE, level |-> 1,
              block_size |-> h.block_size,
              compressed_size |-> h.compressed_size,
              size |-> h.size,
              content_checksum |-> h.content_checksum,
              block_checksum |-> h.block_checksum,
              block_header_size |-> IF h.block_checksum THEN 4 ELSE 0,
              header |-> h.header, header_size |-> 7,
              xxh |-> IF h.content_checksum THEN XXH32_reset(0) ELSE UNINIT]

\* _lz4_init(level, size, block_checksum, content_checksum); xxh is not reset
lz4_init(level, size, block_checksum, content_checksum) ==
    LET pick(n, b, c, cb) ==
            IF ~content_checksum THEN (IF block_checksum THEN b ELSE n)
            ELSE (IF block_checksum THEN cb ELSE c)
        hb == IF size = s64kb THEN <<pick(n_64kb, b_64kb, c_64kb, cb_64kb), 64 * 1024>>
              ELSE IF size = s256kb
                   THEN <<pick(n_256kb, b_256kb, c_256kb, cb_256kb), 256 * 1024>>
              ELSE IF size = s1mb
                   THEN <<pick(n_1mb, b_1mb, c_1mb, cb_1mb), 1024 * 1024>>
              ELSE IF size = s4mb
                   THEN <<pick(n_4mb, b_4mb, c_4mb, cb_4mb), 4 * 1024 * 1024>>
              ELSE <<>>
    IN  IF hb = <<>> THEN NULL
        ELSE [ctx |-> TRUE, level |-> level,
              block_size |-> hb[2],
              compressed_size |-> LZ4_compressBound(hb[2]),
              size |-> size,
              content_checksum |-> content_checksum,
              block_checksum |-> block_checksum,
              block_header_size |-> 4 + (IF block_checksum THEN 4 ELSE 0),
              header |-> hb[1], header_size |-> 7,
              xxh |-> UNINIT]

lz4_get_header(l) == [header |-> l.header, length |-> l.header_size]

lz4_block_size(l) == l.block_size

lz4_block_header_size(l) == l.block_header_size

lz4_compressed_size(l) == l.compressed_size + l.block_header_size

-----------------------------------------------------------------------------
(* The block codec and the trailer.                                        *)

\* lz4_compress(l, src, src_len, dest, dest_len): [n, out]
lz4_compress(l, src, dest_len) ==
    IF l.level < LZ4HC_CLEVEL_MIN
    THEN LZ4_compress_fast_extState_fastReset(
             src, dest_len, IF l.level < 0 THEN -l.level + 1 ELSE 1)
    ELSE LZ4_compress_HC_extStateHC_fastReset(src, dest_len, l.level)

\* a mutation of StoreRaw: a block as long compressed as raw is kept compressed
StoreRaw_strict(compressed_size, src_len) == compressed_size > src_len

\* the test that sends a block down the raw path
StoreRaw(compressed_size, src_len) == compressed_size >= src_len

\* a mutation of RawField: the raw flag is not set
RawField_noflag(src_len) == write_little_endian_32(src_len)

\* the length field of a raw block
RawField(src_len) == OrHighBit(write_little_endian_32(src_len))

\* lz4_compress_block(l, src, src_len, dest, dest_len): the session after the
\* call, the bytes written to dest and the value returned.  g is what l->xxh
\* held if it was never reset.
lz4_compress_block(l, src, dest_len, g) ==
    LET src_len == Len(src)
        xxh == IF l.content_checksum
               THEN XXH32_update(IF l.xxh = UNINIT THEN g ELSE l.xxh, src)
               ELSE l.xxh
        c == lz4_compress(l, src, dest_len - l.block_header_size)
        isRaw == StoreRaw(c.n, src_len)
        compressed_size == IF isRaw THEN src_len ELSE c.n
        field == IF isRaw THEN RawField(src_len)
                 ELSE write_little_endian_32(c.n)
        payload == IF isRaw THEN src ELSE Take(c.out, compressed_size)
        crc == IF l.block_checksum
               THEN write_little_endian_32(XXH32(payload, 0)) ELSE <<>>
    IN  [l |-> [l EXCEPT !.xxh = xxh],
         dest |-> field \o payload \o crc,
         ret |-> compressed_size + l.block_header_size]

\* a mutation of BlockChecksumFails: the checksum is never compared
BlockChecksumFails_never(src, n) == FALSE

\* the comparison of the stored block checksum, the four bytes at src + n,
\* with the hash of the n bytes before it
BlockChecksumFails(src, n) ==
    write_little_endian_32(XXH32(Take(src, n), 0)) # read_little_endian_32(src, n)

\* what a call that runs into undefined behaviour may do
UB_OUTCOMES == {"fault", "goes on"}

\* lz4_decompress(l, src, src_len, dest, dest_len, compressed).  src is the
\* caller's buffer after the length field.  e is the value a failing
\* decompressor reports, u the outcome of undefined behaviour.
\*   out: the bytes written from dest[0]; checked: the block checksum was
\*   compared; oob: bytes outside src[0..src_len) were read; fault: the
\*   process did not survive the call; cause: which step failed.
lz4_decompress(l, src, src_len, dest_len, compressed, e, u) ==
    LET res(ll, out, ret, oob, checked, fault, cause) ==
            [l |-> ll, out |-> out, ret |-> ret, oob |-> oob,
             checked |-> checked, fault |-> fault, cause |-> cause]
        n == IF l.block_checksum THEN src_len - 4 ELSE src_len
    IN  IF l.block_checksum /\ src_len < 4
        THEN \* src + src_len - 4 lies before src, src_len - 4 wraps
             res(l, <<>>, -500, TRUE, TRUE, u = "fault", "checksum")
        ELSE IF l.block_checksum /\ BlockChecksumFails(src, n)
        THEN res(l, <<>>, -500, FALSE, TRUE, FALSE, "checksum")
        ELSE LET d == LZ4_decompress_safe(Take(src, n), dest_len)
                 out == IF compressed THEN d.out ELSE Take(src, n)
                 r == IF compressed THEN (IF d.ok THEN Len(d.out) ELSE e) ELSE n
                 over == Len(out) > dest_len
             IN  IF r < 0
                 THEN res(l, out, r, FALSE, l.block_checksum, FALSE, "decompressor")
                 ELSE res([l EXCEPT !.xxh = IF l.content_checksum
                                            THEN XXH32_update(@, Take(out, r))
                                            ELSE @],
                          out, r, FALSE, l.block_checksum,
                          over /\ u = "fault", "none")

\* lz4_finish(l, dest): dest is what the caller's buffer holds at dest.
\*   out: the buffer after the call; crc: the digest taken, if any
lz4_finish(l, dest, g) ==
    LET st == IF l.xxh = UNINIT THEN g ELSE l.xxh
        crc == write_little_endian_32(XXH32_digest(st))
        ll == IF l.content_checksum THEN [l EXCEPT !.xxh = st] ELSE l
    IN  IF l.ctx
        THEN IF l.content_checksum
             THEN [l |-> ll, out |-> write_little_endian_32(0) \o crc, ret |-> 8]
             ELSE [l |-> ll, out |-> write_little_endian_32(0), ret |-> 4]
        ELSE IF l.content_checksum /\ crc # read_little_endian_32(dest, 0)
             THEN [l |-> ll, out |-> dest, ret |-> -500]
             ELSE [l |-> ll, out |-> dest, ret |-> 0]

-----------------------------------------------------------------------------
(* The callers.                                                            *)

\* levels on both sides of the high-effort threshold, one of them accelerated
Levels == {-1, 1, 9}
\* the enum's values and one that is none of them
SizeArgs == Sizes \cup {4}
\* what an uninitialised lz4_block_size_t may hold
GarbageSizes == {s64kb, s4mb}

RECURSIVE SeqsUpTo(_)
SeqsUpTo(n) ==
    IF n = 0 THEN {<<>>}
    ELSE LET shorter == SeqsUpTo(n - 1)
         IN  shorter \cup {Append(s, a) : s \in {t \in shorter : Len(t) = n - 1},
                                           a \in Alphabet}

RawBlocks == SeqsUpTo(MaxLen)

NoECall == [called |-> FALSE, dest_len |-> 0, ret |-> 0]
NoDCall == [called |-> FALSE, src_len |-> 0, dest_len |-> 0, compressed |-> FALSE,
            ret |-> 0, written |-> 0, oob |-> FALSE, checked |-> FALSE,
            fault |-> FALSE, cause |-> "none", xxh0 |-> UNINIT]
NoFCall == [ccalled |-> FALSE, cret |-> 0, dcalled |-> FALSE, dret |-> 0,
            stored |-> <<>>]
NoHCall == [called |-> FALSE, op |-> "none", header_size |-> 0, given |-> FALSE,
            ok |-> FALSE, r |-> NULL]

Init ==
    /\ cs = NULL /\ ds = NULL
    /\ raw = <<>> /\ wire = <<>> /\ ecall = NoECall /\ flipped = FALSE
    /\ dst = <<>> /\ dcall = NoDCall
    /\ trailer = <<>> /\ fcall = NoFCall
    /\ fed = XXH32_reset(0)
    /\ nblocks = 0 /\ cfin = 0 /\ dfin = 0 /\ late = FALSE
    /\ hbuf = <<>> /\ hmut = 0 /\ hres = NoHCall

\* the length field of the block in the caller's buffer, and what follows it
Field == Take(wire, 4)
Body == Drop(wire, 4)

\* lz4_init(level, size, block_checksum, content_checksum)
LZ4Init(level, size, bc, cc) ==
    /\ cs = NULL
    /\ cs' = lz4_init(level, size, bc, cc)
    /\ UNCHANGED <<ds, raw, wire, ecall, flipped, dst, dcall, trailer, fcall,
                   fed, nblocks, cfin, dfin, late, headerVars>>

\* lz4_init_decompress(lz4_get_header(cs))
LZ4InitDecompress(g) ==
    /\ cs # NULL /\ ds = NULL
    /\ LET h == lz4_get_header(cs)
       IN  ds' = lz4_init_decompress(h.header, h.length, g)
    /\ UNCHANGED <<cs, raw, wire, ecall, flipped, dst, dcall, trailer, fcall,
                   fed, nblocks, cfin, dfin, late, headerVars>>

\* lz4_compress_block(cs, src, Len(src), wire, dest_len)
CompressBlock(src, dest_len, g) ==
    /\ cs # NULL /\ nblocks < MaxBlocks /\ ~late
    /\ dest_len >= cs.block_header_size
    /\ LET res == lz4_compress_block(cs, src, dest_len, g)
       IN  /\ cs' = res.l
           /\ wire' = res.dest
           /\ ecall' = [called |-> TRUE, dest_len |-> dest_len, ret |-> res.ret]
    /\ raw' = src
    /\ flipped' = FALSE
    /\ dcall' = NoDCall /\ dst' = <<>>
    /\ fed' = XXH32_update(fed, src)
    /\ nblocks' = nblocks + 1
    /\ late' = (late \/ cfin > 0)
    /\ UNCHANGED <<ds, trailer, fcall, cfin, dfin, headerVars>>

\* one bit of the block's payload is inverted between the two sides
FlipBit(i, k) ==
    /\ ecall.called /\ ~flipped /\ ~dcall.called
    /\ i \in 1..Low31(Field)
    /\ wire' = [wire EXCEPT ![4 + i] = FlipBitOf(@, k)]
    /\ flipped' = TRUE
    /\ UNCHANGED <<cs, ds, raw, ecall, dst, dcall, trailer, fcall, fed, nblocks,
                   cfin, dfin, late, headerVars>>

\* src_len as the caller is to compute it from the length field
ProtocolLen(l) == Low31(Field) + (IF l.block_checksum THEN 4 ELSE 0)

\* lz4_decompress(ds, Body, src_len, dst, dest_len, compressed)
Decompress(src_len, dest_len, compressed, e, u) ==
    /\ ds # NULL /\ ecall.called /\ ~dcall.called /\ ~late
    /\ LET res == lz4_decompress(ds, Body, src_len, dest_len, compressed, e, u)
       IN  /\ ds' = res.l
           /\ dst' = res.out
           /\ dcall' = [called |-> TRUE, src_len |-> src_len, dest_len |-> dest_len,
                        compressed |-> compressed, ret |-> res.ret,
                        written |-> Len(res.out), oob |-> res.oob,
                        checked |-> res.checked, fault |-> res.fault,
                        cause |-> res.cause,
                        xxh0 |-> ds.xxh]
    /\ late' = (late \/ dfin > 0)
    /\ UNCHANGED <<cs, raw, wire, ecall, flipped, trailer, fcall, fed, nblocks,
                   cfin, dfin, headerVars>>

\* lz4_finish(cs, trailer)
FinishCompress(g) ==
    /\ cs # NULL /\ cfin < 2 /\ ~late
    /\ LET res == lz4_finish(cs, trailer, g)
       IN  /\ cs' = res.l
           /\ trailer' = res.out
           /\ fcall' = [fcall EXCEPT !.ccalled = TRUE, !.cret = res.ret]
           /\ late' = (late \/ (cfin > 0 /\ res.ret >= 0))
    /\ cfin' = cfin + 1
    /\ UNCHANGED <<ds, raw, wire, ecall, flipped, dst, dcall, fed, nblocks,
                   dfin, headerVars>>

\* lz4_finish(ds, stored): stored is what follows the zero marker
FinishDecompress(stored) ==
    /\ ds # NULL /\ fcall.ccalled /\ dfin < 2 /\ ~late
    /\ LET res == lz4_finish(ds, stored, UNINIT)
       IN  /\ ds' = res.l
           /\ fcall' = [fcall EXCEPT !.dcalled = TRUE, !.dret = res.ret,
                                     !.stored = stored]
           /\ late' = (late \/ (dfin > 0 /\ res.ret >= 0))
    /\ dfin' = dfin + 1
    /\ UNCHANGED <<cs, raw, wire, ecall, flipped, dst, dcall, trailer, fed,
                   nblocks, cfin, headerVars>>

\* a digest other than the one in the trailer
OtherDigest(t) == write_little_endian_32((Low31(t) + 1) % HashMod)

\* the caller streams: every block is given the capacity lz4_compressed_size
\* asks for, travels unharmed and is decoded as the length field says into a
\* destination of block_size bytes, before the next block is fed
Next ==
    \/ \E level \in Levels, size \in SizeArgs, bc \in BOOLEAN, cc \in BOOLEAN :
           LZ4Init(level, size, bc, cc)
    \/ \E g \in GarbageSizes : LZ4InitDecompress(g)
    \/ /\ cs # NULL /\ (ecall.called => dcall.called)
       /\ \E src \in RawBlocks, g \in Held(cs) :
              CompressBlock(src, lz4_compressed_size(cs), g)
    \/ /\ ds # NULL /\ ecall.called
       /\ \E e \in LZ4_ERRORS, u \in UB_OUTCOMES :
              Decompress(ProtocolLen(ds), lz4_block_size(ds), ~HighBit(Field), e, u)

Spec == Init /\ [][Next]_vars

\* the same stream, ended on both sides; the decoder is handed the digest of
\* the trailer or another one.  Nothing keeps a caller from going on after
\* lz4_finish.
NextFinish ==
    \/ \E level \in {1, 9}, size \in SizeArgs, bc \in BOOLEAN, cc \in BOOLEAN :
           LZ4Init(level, size, bc, cc)
    \/ \E g \in GarbageSizes : LZ4InitDecompress(g)
    \/ /\ cs # NULL /\ (ecall.called => dcall.called)
       /\ \E src \in RawBlocks, g \in Held(cs) :
              CompressBlock(src, lz4_compressed_size(cs), g)
    \/ /\ ds # NULL /\ ecall.called
       /\ \E e \in LZ4_ERRORS, u \in UB_OUTCOMES :
              Decompress(ProtocolLen(ds), lz4_block_size(ds), ~HighBit(Field), e, u)
    \/ cs # NULL /\ \E g \in Held(cs) : FinishCompress(g)
    \/ /\ fcall.ccalled
       /\ \E stored \in IF Len(trailer) = 8
                        THEN {Drop(trailer, 4), OtherDigest(Drop(trailer, 4))}
                        ELSE {<<>>} :
              FinishDecompress(stored)

SpecFinish == Init /\ [][NextFinish]_vars

\* one block, with a caller and a channel that may do anything: a destination
\* just large enough for the raw bytes, a flipped payload bit, a source length
\* without the checksum's four bytes, a destination of one byte
FlipBits == {0, 7}

NextBlock ==
    \/ \E level \in Levels, size \in SizeArgs, bc \in BOOLEAN, cc \in BOOLEAN :
           LZ4Init(level, size, bc, cc)
    \/ \E g \in GarbageSizes : LZ4InitDecompress(g)
    \/ /\ cs # NULL /\ nblocks = 0
       /\ \E src \in RawBlocks, g \in Held(cs) :
           \E dest_len \in {lz4_compressed_size(cs), cs.block_header_size + Len(src)} :
              CompressBlock(src, dest_len, g)
    \/ \E i \in 1..(2 * MaxLen), k \in FlipBits : FlipBit(i, k)
    \/ /\ ds # NULL /\ ecall.called
       /\ \E src_len \in {ProtocolLen(ds), Low31(Field)},
             dest_len \in {lz4_block_size(ds), 1},
             e \in LZ4_ERRORS, u \in UB_OUTCOMES :
              Decompress(src_len, dest_len, ~HighBit(Field), e, u)

SpecBlock == Init /\ [][NextBlock]_vars

-----------------------------------------------------------------------------
(* Descriptor buffers: a caller takes the descriptor a session emits,      *)
(* overwrites bytes of it or clears it, and has it recognised.             *)

\* the values tried for byte i: those of the table, each with its lowest bit
\* inverted, and zero
ByteSamples(i) ==
    {d[i] : d \in Descriptors} \cup {FlipBitOf(d[i], 0) : d \in Descriptors} \cup {0}

HeaderSizes == {0, 6, 7, 8}

\* lz4_init, then lz4_get_header into the caller's buffer
EmitHeader(level, size, bc, cc) ==
    /\ cs = NULL
    /\ cs' = lz4_init(level, size, bc, cc)
    /\ hbuf' = IF cs' = NULL THEN hbuf ELSE lz4_get_header(cs').header
    /\ UNCHANGED <<ds, raw, wire, ecall, flipped, dst, dcall, trailer, fcall,
                   fed, nblocks, cfin, dfin, late, hmut, hres>>

SetByte(i, v) ==
    /\ hbuf # <<>> /\ ~hres.called /\ hmut < MaxMut
    /\ v # hbuf[i]
    /\ hbuf' = [hbuf EXCEPT ![i] = v]
    /\ hmut' = hmut + 1
    /\ UNCHANGED <<streamVars, hres>>

ZeroHeader ==
    /\ hbuf # <<>> /\ ~hres.called /\ hmut = 0
    /\ hbuf' = [i \in 1..7 |-> 0]
    /\ hmut' = MaxMut
    /\ UNCHANGED <<streamVars, hres>>

\* lz4_check_header(r, hbuf, header_size), r an uninitialised struct or NULL
CheckHeader(header_size, given, g) ==
    /\ hbuf # <<>> /\ ~hres.called
    /\ LET chk == lz4_check_header(IF given THEN UninitHeader(g) ELSE NULL,
                                   hbuf, header_size)
       IN  hres' = [called |-> TRUE, op |-> "check", header_size |-> header_size,
                    given |-> given, ok |-> chk.ok, r |-> chk.r]
    /\ UNCHANGED <<streamVars, hbuf, hmut>>

\* lz4_init_decompress(hbuf, header_size)
InitDecompress(header_size, g) ==
    /\ hbuf # <<>> /\ ~hres.called
    /\ ds' = lz4_init_decompress(hbuf, header_size, g)
    /\ hres' = [called |-> TRUE, op |-> "init", header_size |-> header_size,
                given |-> TRUE, ok |-> ds' # NULL, r |-> NULL]
    /\ UNCHANGED <<cs, raw, wire, ecall, flipped, dst, dcall, trailer, fcall,
                   fed, nblocks, cfin, dfin, late, hbuf, hmut>>

NextHeader ==
    \/ \E level \in Levels, size \in SizeArgs, bc \in BOOLEAN, cc \in BOOLEAN :
           EmitHeader(level, size, bc, cc)
    \/ \E i \in 1..7 : \E v \in ByteSamples(i) : SetByte(i, v)
    \/ ZeroHeader
    \/ \E header_size \in HeaderSizes, given \in BOOLEAN, g \in GarbageSizes :
           CheckHeader(header_size, given, g)
    \/ \E header_size \in HeaderSizes, g \in GarbageSizes :
           InitDecompress(header_size, g)

SpecHeader == Init /\ [][NextHeader]_vars

-----------------------------------------------------------------------------
(* The properties.                                                         *)

\* the payload of the block in the caller's buffer, as its length field says
Payload == SubSeq(wire, 5, 4 + Low31(Field))

\* the decoder was called as the header file asks: src_len from the length
\* field, plus 4 with a block checksum, compressed iff the high bit is clear
ByProtocol ==
    /\ dcall.src_len = ProtocolLen(ds)
    /\ dcall.compressed = ~HighBit(Field)

\* C1 (round trip): a block encoded with the capacity lz4_compressed_size asks
\* for and decoded by the protocol, into block_size bytes, by a session made
\* from the encoder's header, returns the raw length and the raw bytes, for
\* every block of a stream and every choice of level, size and checksums.
C1_RoundTrip ==
    (/\ dcall.called /\ ~flipped /\ ByProtocol
     /\ ecall.dest_len = lz4_compressed_size(cs)
     /\ dcall.dest_len = lz4_block_size(ds))
    => (dcall.ret = Len(raw) /\ dst = raw)

\* a second block, compressed, checksummed both ways, has come back whole
C1_Witness ==
    /\ dcall.called /\ nblocks = 2 /\ ~HighBit(Field) /\ Len(raw) = 3
    /\ ds.block_checksum /\ ds.content_checksum
    /\ dcall.ret = 3 /\ dst = raw

\* C2 (descriptor recognition): lz4_check_header, given a struct to fill, and
\* lz4_init_decompress accept a buffer iff header_size is 7 and the seven
\* bytes are one of the 16 descriptors; a rejected buffer makes no session.
C2_Recognition ==
    hres.called =>
        /\ hres.given =>
               (hres.ok <=> (hres.header_size = 7 /\ hbuf \in Descriptors))
        /\ (ds # NULL) <=> (hres.op = "init" /\ hres.header_size = 7
                              /\ hbuf \in Descriptors)

\* a descriptor with one byte replaced by that of another descriptor of its
\* size class is rejected at the right length
C2_Witness ==
    /\ hres.called /\ hres.op = "init" /\ hres.header_size = 7 /\ hmut = 1
    /\ hbuf = [c_64kb EXCEPT ![7] = n_64kb[7]]
    /\ ~hres.ok /\ ds = NULL

\* C3 (content checksum agreement): the digest compress-mode lz4_finish
\* writes after the zero marker is the hash, from the reset state, of the raw
\* bytes fed; a decoder that accumulated the same bytes and is handed that
\* digest finishes with 0, and one handed another digest with -500.
C3_ContentChecksum ==
    /\ (fcall.ccalled /\ cs.content_checksum /\ ~late)
          => trailer = write_little_endian_32(0)
                         \o write_little_endian_32(XXH32_digest(fed))
    /\ (fcall.dcalled /\ ds.content_checksum /\ ~late)
          => /\ (ds.xxh = fed /\ fcall.stored = Drop(trailer, 4))
                   => fcall.dret = 0
             /\ fcall.stored # write_little_endian_32(XXH32_digest(ds.xxh))
                   => fcall.dret = -500

\* C4 (block checksum detection): with a block checksum, a block whose stored
\* checksum is not the hash of its payload - as after a flipped payload bit -
\* is refused with -500, nothing is written and the accumulator is left
\* alone; without one no checksum is compared and a raw block is copied
\* whatever it holds.
C4_BlockChecksum ==
    dcall.called =>
        /\ (ds.block_checksum /\ dcall.src_len >= 4
              /\ BlockChecksumFails(Body, dcall.src_len - 4))
             => (/\ dcall.ret = -500 /\ dcall.cause = "checksum"
                 /\ dcall.written = 0 /\ dst = <<>>
                 /\ ds.xxh = dcall.xxh0)
        /\ (ds.block_checksum /\ flipped /\ ByProtocol) => dcall.ret = -500
        /\ ~ds.block_checksum
             => (/\ ~dcall.checked /\ dcall.cause # "checksum"
                 /\ ~dcall.compressed
                      => (dcall.ret = dcall.src_len /\ dst = Take(Body, dcall.src_len)))

\* a flipped bit met a block checksum, in a session that also keeps a
\* content checksum
C4_Witness ==
    /\ dcall.called /\ flipped /\ ByProtocol
    /\ ds.block_checksum /\ ds.content_checksum
    /\ dcall.ret = -500 /\ dcall.written = 0 /\ ds.xxh = dcall.xxh0

\* C5 (destination too small): when the compressor reports that its output
\* does not fit the capacity dest_len - block_header_size, the block is stored
\* raw: length field src_len | 0x80000000, then the input.
C5_TooSmallStoredRaw ==
    (ecall.called /\ ~flipped) =>
        LET cap == ecall.dest_len - cs.block_header_size
        IN  (/\ lz4_compress(cs, raw, cap).n = 0
             /\ lz4_compress(cs, raw, cs.compressed_size).n > cap)
            => (Field = OrHighBit(write_little_endian_32(Len(raw)))
                /\ Payload = raw)

\* C6 (finished is terminal): once lz4_finish has run on a session, no
\* lz4_compress_block, lz4_decompress or second lz4_finish on it is accepted.
C6_FinishedIsTerminal == ~late

\* C7 (discriminated decode errors): a failure of the decompressor is never
\* returned as the value of a block checksum mismatch, and no failure as a
\* byte count.
C7_Discriminated ==
    dcall.called =>
        /\ dcall.cause = "checksum" => dcall.ret = -500
        /\ dcall.cause = "decompressor" => (dcall.ret < 0 /\ dcall.ret # -500)

\* C8 (emit/recognize): lz4_init succeeds for the four sizes, the 16
\* descriptors differ, and lz4_check_header on the emitted header fills every
\* field of *r with the emitting session's values.
C8_EmitRecognize ==
    /\ \A level \in Levels, size \in Sizes, bc \in BOOLEAN, cc \in BOOLEAN :
           lz4_init(level, size, bc, cc) # NULL
    /\ Cardinality(Descriptors) = 16
    /\ (hres.called /\ hres.op = "check" /\ hres.given /\ hres.header_size = 7
          /\ hmut = 0)
         => /\ hres.ok
            /\ hres.r.size = cs.size
            /\ hres.r.block_size = cs.block_size
            /\ hres.r.compressed_size = cs.compressed_size
            /\ hres.r.block_checksum = cs.block_checksum
            /\ hres.r.content_checksum = cs.content_checksum
            /\ hres.r.header = cs.header

\* C9 (raw fallback): a block is stored raw exactly when the compressor's
\* output is no shorter than the input; a raw block is src_len | 0x80000000
\* and the input, a compressed one the compressed length, high bit clear, and
\* the compressor's output; the low 31 bits never exceed src_len; the value
\* returned is 4 + payload + (4 with a block checksum), the bytes written.
C9_RawFallback ==
    (ecall.called /\ ~flipped) =>
        LET c == lz4_compress(cs, raw, ecall.dest_len - cs.block_header_size)
            n == Len(raw)
        IN  /\ HighBit(Field) <=> (c.n >= n)
            /\ HighBit(Field)
                 => (Field = OrHighBit(write_little_endian_32(n)) /\ Payload = raw)
            /\ ~HighBit(Field)
                 => (Field = write_little_endian_32(c.n) /\ Payload = c.out)
            /\ Low31(Field) <= n
            /\ ecall.ret = 4 + Low31(Field) + (IF cs.block_checksum THEN 4 ELSE 0)
            /\ Len(wire) = ecall.ret

\* a block whose compressed form is exactly as long as the block went raw
C9_Witness ==
    /\ ecall.called /\ ~flipped /\ raw = <<97, 97>> /\ cs.level = 1
    /\ ecall.dest_len = lz4_compressed_size(cs)
    /\ lz4_compress(cs, raw, cs.compressed_size).n = 2
    /\ HighBit(Field) /\ Payload = raw

\* C10 (bounded decode): lz4_decompress writes at most dest_len bytes, reads
\* only src[0..src_len), and fails on a payload longer than dest_len and on a
\* checksummed block of fewer than 4 bytes.
C10_BoundedDecode ==
    dcall.called =>
        /\ dcall.written <= dcall.dest_len
        /\ ~dcall.oob /\ ~dcall.fault
        /\ (ds.block_checksum /\ dcall.src_len < 4) => dcall.ret < 0
        /\ (~dcall.compressed /\ ~ds.block_checksum
              /\ dcall.src_len > dcall.dest_len) => dcall.ret < 0

====
